---- MODULE Spec2Model ----
(***************************************************************************)
(* FinalInlinePass (opt/final_inline/FinalInline.cpp): encodable-clinit    *)
(* replacement, constant propagation between static finals, use-site       *)
(* inlining of static finals and removal of unused static finals, over a   *)
(* scope of two classes P and C.                                           *)
(*                                                                         *)
(* 64-bit quantities are kept as four 16-bit limbs <<w3, w2, w1, w0>>      *)
(* (most significant first), 32-bit quantities as <<w1, w0>>, so that the  *)
(* masks 0xffff and 0xffff0000 and the casts between int64_t, uint64_t and *)
(* uint32_t are computed at their width.                                   *)
(***************************************************************************)
EXTENDS Integers, Sequences, FiniteSets, TLC

(* ------------------------------------------------------------------ *)
(* Bounds of the enumerated inputs                                     *)
(* ------------------------------------------------------------------ *)
MaxChunks == 3
MaxMethodLen == 2
MaxWrites == 4

(* ------------------------------------------------------------------ *)
(* The class universe                                                  *)
(* ------------------------------------------------------------------ *)
Classes == {"P", "C"}
Fields == {"Pa", "Pb", "Cx", "Cy"}
NoField == "none"
FieldRefs == Fields \cup {"Unres"}

\* DexField::get_class(): the declaring class of a field definition.
FieldClass(f) ==
  IF f \in {"Pa", "Pb"} THEN "P" ELSE "C"

\* resolve_field(ref, FieldSearch::Static): the definition a reference names,
\* or nullptr (NoField) when nothing on the hierarchy matches.
resolve_field(ref) ==
  IF ref \in Fields THEN ref ELSE NoField

\* DexField::is_concrete(): every definition of the scope is concrete.
is_concrete(f) ==
  f \in Fields

(* ------------------------------------------------------------------ *)
(* Integers at their width                                             *)
(* ------------------------------------------------------------------ *)
Limb == 65536
NoValue == <<>>

\* An int32 literal as the int64_t IRInstruction::literal() holds it (sign
\* extended) and as (uint64_t) literal() reinterprets it: the same 64 bits.
SignExtend64(n) ==
  IF n >= 0
    THEN <<0, 0, n \div Limb, n % Limb>>
    ELSE LET m == (n + 2147483647) + 1
         IN  <<Limb - 1, Limb - 1, (Limb \div 2) + (m \div Limb), m % Limb>>

\* (uint32_t) value->value()
Trunc32(v) ==
  <<v[3], v[4]>>

\* set_literal(v) of a uint32_t: zero extended to the 64-bit literal.
ZeroExtend64(v) ==
  <<0, 0, v[1], v[2]>>

\* (v & 0xffff) == v on a uint32_t
Fits16_32(v) ==
  <<0, v[2]>> = v

\* (v & 0xffff0000) == v on a uint32_t
FitsHigh16_32(v) ==
  <<v[1], 0>> = v

\* (v & 0xffff) == v on a uint64_t
Fits16_64(v) ==
  <<0, 0, 0, v[4]>> = v

\* (v & 0xffff0000) == v on a uint64_t
FitsHigh16_64(v) ==
  <<0, 0, v[3], 0>> = v

(* ------------------------------------------------------------------ *)
(* Instructions                                                        *)
(* ------------------------------------------------------------------ *)
Ins(op, dest, src, ref, lit) ==
  [op |-> op, dest |-> dest, src |-> src, fld |-> ref, lit |-> lit, id |-> 0]

Const4(d, n) == Ins("const4", d, 0, NoField, SignExtend64(n))
Const16(d, n) == Ins("const16", d, 0, NoField, SignExtend64(n))
Const32(d, n) == Ins("const", d, 0, NoField, SignExtend64(n))
Sget(d, ref) == Ins("sget", d, 0, ref, NoValue)
SgetWide(d, ref) == Ins("sget_wide", d, 0, ref, NoValue)
Sput(s, ref) == Ins("sput", 0, s, ref, NoValue)
SgetObject(d, ref) == Ins("sget_object", d, 0, ref, NoValue)
NotInt(d, s) == Ins("not_int", d, s, NoField, NoValue)
ReturnVoid == Ins("return_void", 0, 0, NoField, NoValue)

\* IRInstruction::dests_size()
dests_size(i) ==
  IF i.op \in {"const4", "const16", "const", "const_high16",
                 "sget", "sget_wide", "sget_object", "not_int"}
    THEN 1 ELSE 0

\* IRInstruction::srcs_size()
srcs_size(i) ==
  IF i.op \in {"sput", "not_int"} THEN 1 ELSE 0

\* IRInstruction::has_fields()
has_fields(i) ==
  i.op \in {"sget", "sget_wide", "sget_object", "sput"}

is_sput(op) ==
  op = "sput"

is_sfield_op(op) ==
  op \in {"sget", "sget_wide", "sget_object", "sput"}

is_const(op) ==
  op \in {"const4", "const16", "const", "const_high16"}

\* A method: present or not, and its instruction stream. Every instruction
\* keeps as id its position in the stream the method was loaded with, which
\* stands for the IRInstruction pointer.
NoMethod == [has |-> FALSE, code |-> <<>>]
Method(body) ==
  [has |-> TRUE, code |-> [k \in 1..Len(body) |-> [body[k] EXCEPT !.id = k]]]

RECURSIVE Concat(_)
Concat(ss) ==
  IF Len(ss) = 0 THEN <<>> ELSE Head(ss) \o Concat(Tail(ss))

SeqsUpTo(S, n) ==
  UNION {[1..k -> S] : k \in 0..n}

(* ------------------------------------------------------------------ *)
(* The in-memory classes                                               *)
(*   dex.flds[f]    access bits, type and encoded default of field f   *)
(*   dex.sfields[c] the static-field list of class c                   *)
(*   dex.code[<<c, "clinit">>], dex.code[<<c, "m">>]                   *)
(*                  the static initialiser and the other method of c   *)
(* ------------------------------------------------------------------ *)
MethodKinds == {"clinit", "m"}
MethodIds == Classes \X MethodKinds

\* DexClass::get_clinit()
get_clinit(dex, c) ==
  dex.code[<<c, "clinit">>]

is_static_final(dex, f) ==
  dex.flds[f].static /\ dex.flds[f].final

\* The position of the instruction with identity id in a stream, 0 if gone.
IndexOf(code, id) ==
  IF \E k \in 1..Len(code) : code[k].id = id
    THEN CHOOSE k \in 1..Len(code) : code[k].id = id
    ELSE 0

\* MethodTransform::remove_opcode of an instruction that is in the stream.
remove_opcode(code, id) ==
  SelectSeq(code, LAMBDA i : i.id # id)

\* MethodTransform::replace_opcode(from, to)
replace_opcode(code, id, to) ==
  [k \in 1..Len(code) |-> IF code[k].id = id THEN [to EXCEPT !.id = id] ELSE code[k]]

(* ------------------------------------------------------------------ *)
(* get_sput_in_clinit: the blank statics of a class                    *)
(* ------------------------------------------------------------------ *)
get_sput_in_clinit_mut(dex, c) ==
  {}

get_sput_in_clinit(dex, c) ==
  LET clinit == get_clinit(dex, c)
  IN  IF ~clinit.has THEN {}
      ELSE {f \in Fields :
              \E k \in 1..Len(clinit.code) :
                 /\ has_fields(clinit.code[k]) /\ is_sput(clinit.code[k].op)
                 /\ resolve_field(clinit.code[k].fld) = f
                 /\ is_concrete(f)
                 /\ FieldClass(f) = c}

(* ------------------------------------------------------------------ *)
(* replace_encodable_clinits                                           *)
(* ------------------------------------------------------------------ *)
validate_const_for_ev(i) ==
  is_const(i.op) /\ i.op \in {"const4", "const16", "const"}

validate_sput_for_ev(c, i) ==
  /\ has_fields(i) /\ is_sput(i.op)
  /\ resolve_field(i.fld) # NoField
  /\ FieldClass(resolve_field(i.fld)) = c

\* The verification loop of try_replace_clinit: it walks the stream two
\* instructions at a time; k is the position of `it` at the loop head.
RECURSIVE ScanPairs(_, _, _, _)
ScanPairs(code, c, k, acc) ==
  IF k > Len(code) THEN [ok |-> TRUE, pairs |-> acc]
  ELSE IF k + 1 > Len(code)
    THEN [ok |-> code[k].op = "return_void", pairs |-> acc]
  ELSE IF ~(/\ validate_const_for_ev(code[k])
            /\ validate_sput_for_ev(c, code[k + 1])
            /\ code[k].dest = code[k + 1].src)
    THEN [ok |-> FALSE, pairs |-> acc]
  ELSE ScanPairs(code, c, k + 2, Append(acc, <<code[k], code[k + 1]>>))

\* The second loop of try_replace_clinit: make_concrete with the literal.
RECURSIVE AttachValues(_, _)
AttachValues(flds, pairs) ==
  IF Len(pairs) = 0 THEN flds
  ELSE LET field == resolve_field(Head(pairs)[2].fld)
           ev == Head(pairs)[1].lit
       IN  AttachValues([flds EXCEPT ![field].value = ev], Tail(pairs))

try_replace_clinit(dex, c) ==
  LET scan == ScanPairs(get_clinit(dex, c).code, c, 1, <<>>)
  IN  IF ~scan.ok THEN dex
      ELSE [dex EXCEPT !.flds = AttachValues(dex.flds, scan.pairs),
                       !.code[<<c, "clinit">>] = NoMethod]

RECURSIVE replace_encodable_clinits(_, _)
replace_encodable_clinits(dex, fullscope) ==
  IF Len(fullscope) = 0 THEN dex
  ELSE LET clazz == Head(fullscope)
           next == IF ~get_clinit(dex, clazz).has THEN dex
                   ELSE try_replace_clinit(dex, clazz)
       IN  replace_encodable_clinits(next, Tail(fullscope))

(* ------------------------------------------------------------------ *)
(* propagate_constants: dependency map and seeds                       *)
(* ------------------------------------------------------------------ *)
check_sget(i) ==
  i.op = "sget"

\* The scan of instructions i+2..end for the register the sget loaded.
RECURSIVE src_reg_reused(_, _, _)
src_reg_reused(code, j, reg) ==
  IF j > Len(code) THEN FALSE
  ELSE IF dests_size(code[j]) > 0 /\ code[j].dest = reg THEN FALSE
  ELSE IF srcs_size(code[j]) > 0 /\ code[j].src = reg THEN TRUE
  ELSE src_reg_reused(code, j + 1, reg)

\* Whether the instruction at k starts a recorded (sget, sput) pair. The
\* enumerated initialisers never end in a static read, so std::next(it) is
\* always an instruction of the stream.
IsDependency(dex, c, code, k) ==
  /\ has_fields(code[k]) /\ check_sget(code[k])
  /\ resolve_field(code[k].fld) # NoField
  /\ is_static_final(dex, resolve_field(code[k].fld))
  /\ k + 1 <= Len(code)
  /\ validate_sput_for_ev(c, code[k + 1])
  /\ is_static_final(dex, resolve_field(code[k + 1].fld))
  /\ code[k].dest = code[k + 1].src
  /\ ~src_reg_reused(code, k + 2, code[k].dest)

\* The dependencies found in one initialiser, in instruction order.
RECURSIVE ClassDeps(_, _, _, _)
ClassDeps(dex, c, code, k) ==
  IF k > Len(code) THEN <<>>
  ELSE (IF IsDependency(dex, c, code, k)
          THEN <<[src |-> resolve_field(code[k].fld), clinit |-> c,
                  sget |-> code[k].id, sput |-> code[k + 1].id,
                  field |-> resolve_field(code[k + 1].fld)]>>
          ELSE <<>>)
       \o ClassDeps(dex, c, code, k + 1)

RECURSIVE AllDeps(_, _)
AllDeps(dex, fullscope) ==
  IF Len(fullscope) = 0 THEN <<>>
  ELSE (IF get_clinit(dex, Head(fullscope)).has
          THEN ClassDeps(dex, Head(fullscope), get_clinit(dex, Head(fullscope)).code, 1)
          ELSE <<>>)
       \o AllDeps(dex, Tail(fullscope))

\* deps: static -> the statics that depend on it, in discovery order.
BuildDeps(dex, fullscope) ==
  [f \in Fields |-> SelectSeq(AllDeps(dex, fullscope), LAMBDA d : d.src = f)]

\* The static finals whose values are known, in scope and field-list order.
RECURSIVE SeedResolved(_, _)
SeedResolved(dex, fullscope) ==
  IF Len(fullscope) = 0 THEN <<>>
  ELSE LET clazz == Head(fullscope)
           blank_statics == get_sput_in_clinit(dex, clazz)
       IN  SelectSeq(dex.sfields[clazz],
                     LAMBDA f : is_static_final(dex, f) /\ f \notin blank_statics)
           \o SeedResolved(dex, Tail(fullscope))

(* propagate_constants: the body of the worklist loop for one `cur`    *)
(*   st.dex      the classes                                           *)
(*   st.pushed   the fields pushed on the worklist, in order           *)
(*   st.nwrites  how often each field was made concrete                *)
(*   st.missing  whether remove_opcode was asked for an instruction    *)
(*               that is no longer in its stream                       *)
(*   st.aborted  whether that request ended the process                *)
(* remove_opcode of an instruction that is no longer in the stream     *)
(* either fails its assertion or changes nothing (onMissing).          *)
(* ------------------------------------------------------------------ *)
MissingOutcomes == {"assert", "ignore"}

RECURSIVE ResolveDeps(_, _, _, _)
ResolveDeps(st, val, ds, onMissing) ==
  IF Len(ds) = 0 \/ st.aborted THEN st
  ELSE LET dep == Head(ds)
           key == <<dep.clinit, "clinit">>
           code == st.dex.code[key].code
           gone == IndexOf(code, dep.sget) = 0 \/ IndexOf(code, dep.sput) = 0
           stop == gone /\ onMissing = "assert"
           d1 == [st.dex EXCEPT !.flds[dep.field].value = val,
                                !.code[key].code =
                                   remove_opcode(remove_opcode(code, dep.sget), dep.sput)]
       IN  ResolveDeps([dex |-> d1,
                        pushed |-> IF stop THEN st.pushed ELSE Append(st.pushed, dep.field),
                        nwrites |-> [st.nwrites EXCEPT ![dep.field] = @ + 1],
                        missing |-> st.missing \/ gone,
                        aborted |-> stop],
                       val, Tail(ds), onMissing)

(* ------------------------------------------------------------------ *)
(* inline_field_values                                                 *)
(* ------------------------------------------------------------------ *)
is_primitive(dex, f) ==
  dex.flds[f].prim

\* DexEncodedValue::is_evtype_primitive(): every encoded default the model
\* holds is an integer.
is_evtype_primitive(v) ==
  Len(v) = 4

\* value != nullptr ? value->value() : 0
ValueOrZero(v) ==
  IF v = NoValue THEN <<0, 0, 0, 0>> ELSE v

SeqToSet(q) ==
  {q[k] : k \in 1..Len(q)}

\* inline_field: the fields whose reads are rewritten.
InlineField(dex, fullscope) ==
  {f \in Fields :
     \E clazz \in SeqToSet(fullscope) :
        /\ f \in SeqToSet(dex.sfields[clazz])
        /\ is_static_final(dex, f)
        /\ f \notin get_sput_in_clinit(dex, clazz)
        /\ ~(dex.flds[f].value = NoValue /\ ~is_primitive(dex, f))
        /\ ~(dex.flds[f].value # NoValue /\ ~is_evtype_primitive(dex.flds[f].value))}

\* cheap_inline_field taken as every value that fits 32 bits.
IsCheapField_mut(dex, f) ==
  LET v == ValueOrZero(dex.flds[f].value)
  IN  v[1] = 0 /\ v[2] = 0

\* cheap_inline_field: classified on the 64-bit encoded value.
IsCheapField(dex, f) ==
  LET v == ValueOrZero(dex.flds[f].value)
  IN  Fits16_64(v) \/ FitsHigh16_64(v)

\* The walk_opcodes callback over one stream: the queued (method, insn) pairs.
RECURSIVE MethodSites(_, _, _, _)
MethodSites(dex, inl, key, k) ==
  LET code == dex.code[key].code
  IN  IF k > Len(code) THEN <<>>
      ELSE LET insn == code[k]
               field == resolve_field(insn.fld)
               queued == /\ has_fields(insn) /\ is_sfield_op(insn.op)
                         /\ field # NoField /\ is_concrete(field)
                         /\ field \in inl
           IN  (IF queued
                  THEN <<[key |-> key, id |-> insn.id, cheap |-> IsCheapField(dex, field)]>>
                  ELSE <<>>)
               \o MethodSites(dex, inl, key, k + 1)

\* walk_opcodes: classes in scope order, the initialiser then the method.
RECURSIVE InlineSites(_, _, _)
InlineSites(dex, inl, fullscope) ==
  IF Len(fullscope) = 0 THEN <<>>
  ELSE LET c == Head(fullscope)
       IN  (IF dex.code[<<c, "clinit">>].has
              THEN MethodSites(dex, inl, <<c, "clinit">>, 1) ELSE <<>>)
           \o (IF dex.code[<<c, "m">>].has
                 THEN MethodSites(dex, inl, <<c, "m">>, 1) ELSE <<>>)
           \o InlineSites(dex, inl, Tail(fullscope))

\* validate_sget: "ok", "skip" (returns false) or "fatal" (always_assert).
validate_sget(insn) ==
  IF insn.op = "sget_wide" THEN "skip"
  ELSE IF insn.op = "sget" THEN "ok"
  ELSE "fatal"

\* The opcode inline_cheap_sget picks for the 32-bit value, "fatal" if none.
CheapOpcode(v) ==
  IF Fits16_32(v) THEN "const16"
  ELSE IF FitsHigh16_32(v) THEN "const_high16"
  ELSE "fatal"

\* inline_cheap_sget (cheap) or inline_sget applied to one queued pair.
InlineOne(st, site) ==
  LET code == st.dex.code[site.key].code
      insn == code[IndexOf(code, site.id)]
      field == resolve_field(insn.fld)
      v == Trunc32(ValueOrZero(st.dex.flds[field].value))
      opcode == IF site.cheap THEN CheapOpcode(v) ELSE "const"
      newopcode == [op |-> opcode, dest |-> insn.dest, src |-> 0, fld |-> NoField,
                    lit |-> ZeroExtend64(v), id |-> insn.id]
  IN  IF validate_sget(insn) = "skip" THEN st
      ELSE IF validate_sget(insn) = "fatal"
        THEN [st EXCEPT !.aborted = TRUE, !.fatal = "validate_sget"]
      ELSE IF opcode = "fatal"
        THEN [st EXCEPT !.aborted = TRUE, !.fatal = "inline_cheap_sget"]
      ELSE [dex |-> [st.dex EXCEPT !.code[site.key].code =
                                      replace_opcode(code, site.id, newopcode)],
            log |-> Append(st.log, [key |-> site.key, id |-> site.id, field |-> field,
                                    cheap |-> site.cheap]),
            aborted |-> FALSE, fatal |-> st.fatal]

RECURSIVE ApplyRewrites(_, _)
ApplyRewrites(st, sites) ==
  IF Len(sites) = 0 \/ st.aborted THEN st
  ELSE ApplyRewrites(InlineOne(st, Head(sites)), Tail(sites))

inline_field_values_mut(dex, fullscope) ==
  LET sites == InlineSites(dex, InlineField(dex, fullscope), fullscope)
      cheap_rewrites == SelectSeq(sites, LAMBDA s : s.cheap)
      simple_rewrites == SelectSeq(sites, LAMBDA s : ~s.cheap)
  IN  ApplyRewrites([dex |-> dex, log |-> <<>>, aborted |-> FALSE, fatal |-> "none"],
                    simple_rewrites \o cheap_rewrites)

inline_field_values(dex, fullscope) ==
  LET sites == InlineSites(dex, InlineField(dex, fullscope), fullscope)
      cheap_rewrites == SelectSeq(sites, LAMBDA s : s.cheap)
      simple_rewrites == SelectSeq(sites, LAMBDA s : ~s.cheap)
  IN  ApplyRewrites([dex |-> dex, log |-> <<>>, aborted |-> FALSE, fatal |-> "none"],
                    cheap_rewrites \o simple_rewrites)

(* ------------------------------------------------------------------ *)
(* remove_unused_fields                                                *)
(* ------------------------------------------------------------------ *)
get_called_field_defs_mut(dex) ==
  {}

\* Every method's field references, mapped to the definitions they resolve to.
get_called_field_defs(dex) ==
  {f \in Fields :
     \E key \in MethodIds :
        /\ dex.code[key].has
        /\ \E k \in 1..Len(dex.code[key].code) :
              /\ has_fields(dex.code[key].code[k])
              /\ resolve_field(dex.code[key].code[k].fld) = f
              /\ is_concrete(f)}

get_field_target(dex, fields) ==
  {f \in fields : f \in get_called_field_defs(dex)}

\* moveable_fields: the candidates of the first loop.
MoveableFields(dex, fullscope, attrs) ==
  {sfield \in Fields :
     \E clazz \in SeqToSet(fullscope) :
        LET found == attrs[clazz].can_delete \/ attrs[clazz].prefixed
        IN  /\ found
            /\ sfield \in SeqToSet(dex.sfields[clazz])
            /\ ~dex.flds[sfield].kept
            /\ is_static_final(dex, sfield)
            /\ ~(dex.flds[sfield].value = NoValue /\ ~is_primitive(dex, sfield))
            /\ ~(~found /\ ~dex.flds[sfield].can_delete)}

remove_unused_fields(dex, fullscope, attrs) ==
  LET moveable_fields == MoveableFields(dex, fullscope, attrs)
      field_target == get_field_target(dex, moveable_fields)
      dead_fields == {f \in moveable_fields : f \notin field_target}
  IN  [dex EXCEPT !.sfields =
         [c \in Classes |-> SelectSeq(dex.sfields[c], LAMBDA f : f \notin dead_fields)]]

(* ------------------------------------------------------------------ *)
(* State                                                               *)
(* ------------------------------------------------------------------ *)
VARIABLES
  scope,       \* the class scope, in order
  attrs,       \* per class: can_delete(clazz), and whether its name contains
               \* one of the configured remove_members prefixes
  dex,         \* the classes: fields, static-field lists, methods
  pc,          \* the step of run_pass that comes next
  run,         \* 1 in the first run of the pass, 2 in the second
  deps,        \* propagate_constants: the dependency map
  resolved,    \* propagate_constants: the worklist
  nwrites,     \* how often the worklist loop made each field concrete
  enqueued,    \* the fields the worklist loop pushed
  missing,     \* whether the loop removed an instruction a second time
  input,       \* the classes as loaded
  snap,        \* the classes as the first run left them (NotYet before)
  preInline,   \* the classes as inline_field_values found them (NotYet before)
  rewriteLog,  \* the rewrites inline_field_values applied, in order
  fatal        \* the always_assert that ended the pass, "none" while it runs

vars == <<scope, attrs, dex, pc, run, deps, resolved, nwrites, enqueued, missing,
          input, snap, preInline, rewriteLog, fatal>>

(* ------------------------------------------------------------------ *)
(* The enumerated inputs                                               *)
(* ------------------------------------------------------------------ *)
DefaultField(v) ==
  [static |-> TRUE, final |-> TRUE, prim |-> TRUE, kept |-> FALSE,
   can_delete |-> TRUE, value |-> v]

DefaultAttrs ==
  [c \in Classes |-> [can_delete |-> TRUE, prefixed |-> FALSE]]

AllSfields ==
  [c \in Classes |-> IF c = "P" THEN <<"Pa", "Pb">> ELSE <<"Cx", "Cy">>]

ScopeOrders == {<<"P", "C">>, <<"C", "P">>}

\* The pieces initialisers of C are put together from.
Chunks ==
  { <<Const16(0, 5), Sput(0, "Cx")>>,
    <<Const32(0, -65536), Sput(0, "Cy")>>,
    <<Sget(0, "Pa"), Sput(0, "Cx")>>,
    <<Sget(0, "Pb"), Sput(0, "Cx")>>,
    <<Sget(0, "Cx"), Sput(0, "Cy")>>,
    <<Sget(0, "Cy"), Sput(0, "Cx")>>,
    <<NotInt(0, 0)>>,
    <<Sput(0, "Cy")>>,
    <<Const4(1, 1)>>,
    <<ReturnVoid>> }

ClinitBodies ==
  {Concat(cs) : cs \in SeqsUpTo(Chunks, MaxChunks)}

MethodAlphabet ==
  { Sget(0, "Pa"), Sget(1, "Cx"), SgetWide(0, "Pb"), SgetObject(0, "Pa"),
    Sput(0, "Pa"), Sget(0, "Unres"), ReturnVoid }

MethodBodies ==
  SeqsUpTo(MethodAlphabet, MaxMethodLen)

PaValues ==
  { NoValue, SignExtend64(7), SignExtend64(268435456), SignExtend64(305419896),
    SignExtend64(-65536) }

Code(pclinit, pm, cclinit, cm) ==
  [key \in MethodIds |->
     IF key = <<"P", "clinit">> THEN pclinit
     ELSE IF key = <<"P", "m">> THEN pm
     ELSE IF key = <<"C", "clinit">> THEN cclinit
     ELSE cm]

\* Initialiser shapes: every initialiser of C built from the chunks, in a
\* class that may not be deleted.
InitShapes ==
  /\ scope \in ScopeOrders
  /\ attrs = [DefaultAttrs EXCEPT !["C"].can_delete = FALSE]
  /\ \E body \in ClinitBodies :
        dex = [flds |-> [f \in Fields |->
                           IF f = "Pa" THEN DefaultField(SignExtend64(7))
                           ELSE IF f = "Pb" THEN DefaultField(SignExtend64(305419896))
                           ELSE DefaultField(NoValue)],
               sfields |-> AllSfields,
               code |-> Code(NoMethod, NoMethod, Method(body),
                             Method(<<Sget(0, "Cx"), Sget(1, "Cy"), ReturnVoid>>))]

PClinits ==
  { NoMethod,
    Method(<<Const16(0, 7), Sput(0, "Pa"), ReturnVoid>>),
    Method(<<Const16(0, 7), Sput(0, "Pa"), NotInt(0, 0), ReturnVoid>>) }

\* Use sites: every method body over the alphabet, every value of P.a.
InitUses ==
  /\ scope = <<"P", "C">>
  /\ attrs = DefaultAttrs
  /\ \E pa \in PaValues, pclinit \in PClinits, xfinal \in BOOLEAN,
        cclinit \in {NoMethod, Method(<<Sget(0, "Pa"), Sput(0, "Cx"), ReturnVoid>>)},
        body \in MethodBodies :
        dex = [flds |-> [f \in Fields |->
                           IF f = "Pa" THEN DefaultField(pa)
                           ELSE IF f = "Cx"
                             THEN [DefaultField(NoValue) EXCEPT !.final = xfinal]
                           ELSE DefaultField(SignExtend64(1))],
               sfields |-> AllSfields,
               code |-> Code(pclinit, NoMethod, cclinit, Method(body))]

\* Removal: every eligibility of class C and of its fields.
InitRemoval ==
  /\ scope = <<"P", "C">>
  /\ \E cd \in BOOLEAN, pre \in BOOLEAN :
        attrs = [DefaultAttrs EXCEPT !["C"] = [can_delete |-> cd, prefixed |-> pre]]
  /\ \E xdel \in BOOLEAN, xkept \in BOOLEAN, xfinal \in BOOLEAN, yprim \in BOOLEAN,
        cclinit \in {NoMethod,
                     Method(<<Const16(0, 5), Sput(0, "Cx"), NotInt(0, 0), ReturnVoid>>)},
        body \in {<<ReturnVoid>>, <<Sget(0, "Cx"), ReturnVoid>>,
                  <<Sget(0, "Pa"), SgetObject(1, "Cy"), ReturnVoid>>} :
        dex = [flds |-> [f \in Fields |->
                           IF f = "Cx"
                             THEN [DefaultField(SignExtend64(3)) EXCEPT
                                     !.can_delete = xdel, !.kept = xkept, !.final = xfinal]
                           ELSE IF f = "Cy"
                             THEN [DefaultField(NoValue) EXCEPT !.prim = yprim]
                           ELSE DefaultField(SignExtend64(7))],
               sfields |-> AllSfields,
               code |-> Code(NoMethod, NoMethod, cclinit, Method(body))]

\* Encoded defaults: every 64-bit value of P.a over a few limb values, read
\* twice by one method.
LimbValues == {0, 1, Limb \div 2, Limb - 1}

InitValues ==
  /\ scope = <<"P", "C">>
  /\ attrs = DefaultAttrs
  /\ \E w3 \in LimbValues, w2 \in LimbValues, w1 \in LimbValues, w0 \in LimbValues :
        dex = [flds |-> [f \in Fields |->
                           IF f = "Pa" THEN DefaultField(<<w3, w2, w1, w0>>)
                           ELSE DefaultField(NoValue)],
               sfields |-> AllSfields,
               code |-> Code(NoMethod, NoMethod, NoMethod,
                             Method(<<Sget(0, "Pa"), Sget(1, "Pa"), ReturnVoid>>))]

\* The value of a snapshot that has not been taken.
NotYet == <<>>

Init ==
  /\ InitShapes \/ InitUses \/ InitRemoval \/ InitValues
  /\ pc = "rc1"
  /\ run = 1
  /\ deps = [f \in Fields |-> <<>>]
  /\ resolved = <<>>
  /\ nwrites = [f \in Fields |-> 0]
  /\ enqueued = {}
  /\ missing = FALSE
  /\ input = dex
  /\ snap = NotYet
  /\ preInline = NotYet
  /\ rewriteLog = <<>>
  /\ fatal = "none"

(* ------------------------------------------------------------------ *)
(* FinalInlinePass::run_pass, step by step                             *)
(* ------------------------------------------------------------------ *)
\* replace_encodable_clinits, before and after propagate_constants.
ReplaceEncodableClinits ==
  /\ pc \in {"rc1", "rc2"}
  /\ dex' = replace_encodable_clinits(dex, scope)
  /\ pc' = IF pc = "rc1" THEN "pbuild" ELSE "inline"
  /\ UNCHANGED <<scope, attrs, run, deps, resolved, nwrites, enqueued, missing,
                 input, snap, preInline, rewriteLog, fatal>>

\* propagate_constants up to the worklist loop.
PropagateBuild ==
  /\ pc = "pbuild"
  /\ deps' = BuildDeps(dex, scope)
  /\ resolved' = SeedResolved(dex, scope)
  /\ nwrites' = [f \in Fields |-> 0]
  /\ enqueued' = {}
  /\ pc' = "ploop"
  /\ UNCHANGED <<scope, attrs, dex, run, missing, input, snap, preInline, rewriteLog,
                 fatal>>

\* One iteration of while (!resolved.empty()).
PropagateStep ==
  /\ pc = "ploop"
  /\ resolved # <<>>
  /\ \A f \in Fields : nwrites[f] < MaxWrites
  /\ \E onMissing \in MissingOutcomes :
        LET cur == Head(resolved)
            st == ResolveDeps([dex |-> dex, pushed |-> <<>>, nwrites |-> nwrites,
                               missing |-> missing, aborted |-> FALSE],
                              dex.flds[cur].value, deps[cur], onMissing)
        IN  /\ dex' = st.dex
            /\ resolved' = Tail(resolved) \o st.pushed
            /\ nwrites' = st.nwrites
            /\ enqueued' = enqueued \cup SeqToSet(st.pushed)
            /\ missing' = st.missing
            /\ pc' = IF st.aborted THEN "aborted" ELSE "ploop"
            /\ fatal' = IF st.aborted THEN "remove_opcode" ELSE fatal
  /\ UNCHANGED <<scope, attrs, run, deps, input, snap, preInline, rewriteLog>>

\* The worklist is empty: propagate_constants returns.
PropagateDone ==
  /\ pc = "ploop"
  /\ resolved = <<>>
  /\ pc' = "rc2"
  /\ UNCHANGED <<scope, attrs, dex, run, deps, resolved, nwrites, enqueued, missing,
                 input, snap, preInline, rewriteLog, fatal>>

InlineFieldValues ==
  /\ pc = "inline"
  /\ LET st == inline_field_values(dex, scope)
     IN  /\ dex' = st.dex
         /\ rewriteLog' = st.log
         /\ pc' = IF st.aborted THEN "aborted" ELSE "remove"
         /\ fatal' = st.fatal
  /\ preInline' = dex
  /\ UNCHANGED <<scope, attrs, run, deps, resolved, nwrites, enqueued, missing,
                 input, snap>>

RemoveUnusedFields ==
  /\ pc = "remove"
  /\ dex' = remove_unused_fields(dex, scope, attrs)
  /\ pc' = "done"
  /\ UNCHANGED <<scope, attrs, run, deps, resolved, nwrites, enqueued, missing,
                 input, snap, preInline, rewriteLog, fatal>>

\* The pass is run again on its own output.
RunAgain ==
  /\ pc = "done"
  /\ run = 1
  /\ run' = 2
  /\ snap' = dex
  /\ pc' = "rc1"
  /\ UNCHANGED <<scope, attrs, dex, deps, resolved, nwrites, enqueued, missing,
                 input, preInline, rewriteLog, fatal>>

Next ==
  \/ ReplaceEncodableClinits
  \/ PropagateBuild
  \/ PropagateStep
  \/ PropagateDone
  \/ InlineFieldValues
  \/ RemoveUnusedFields
  \/ RunAgain

Spec == Init /\ [][Next]_vars

(* ------------------------------------------------------------------ *)
(* Class initialisation: what a program observes                       *)
(*   A static holds its encoded default (zero when absent) until the   *)
(*   initialiser of its class writes it. A register holds Undef until  *)
(*   written. Touching a static of a class whose initialisation has    *)
(*   not started runs that class's initialiser first.                  *)
(* ------------------------------------------------------------------ *)
Undef == <<>>
Regs == {0, 1}

DefaultValue32(d, f) ==
  Trunc32(ValueOrZero(d.flds[f].value))

NotInt32(v) ==
  IF v = Undef THEN Undef ELSE <<(Limb - 1) - v[1], (Limb - 1) - v[2]>>

RECURSIVE InitClass(_, _, _)
RECURSIVE Exec(_, _, _, _, _)
InitClass(d, c, st) ==
  IF c \in st.started THEN st
  ELSE LET st1 == [st EXCEPT !.started = @ \cup {c}]
       IN  IF d.code[<<c, "clinit">>].has
             THEN Exec(d, d.code[<<c, "clinit">>].code, 1, [r \in Regs |-> Undef], st1)
             ELSE st1

Exec(d, code, k, regs, st) ==
  IF k > Len(code) \/ code[k].op = "return_void" THEN st
  ELSE LET i == code[k]
           f == resolve_field(i.fld)
       IN  IF is_const(i.op)
             THEN Exec(d, code, k + 1, [regs EXCEPT ![i.dest] = Trunc32(i.lit)], st)
           ELSE IF i.op = "not_int"
             THEN Exec(d, code, k + 1, [regs EXCEPT ![i.dest] = NotInt32(regs[i.src])], st)
           ELSE IF f = NoField
             THEN st
           ELSE LET st1 == InitClass(d, FieldClass(f), st)
                IN  IF i.op = "sput"
                      THEN Exec(d, code, k + 1, regs,
                                [st1 EXCEPT !.vals[f] = regs[i.src]])
                      ELSE Exec(d, code, k + 1,
                                [regs EXCEPT ![i.dest] = st1.vals[f]], st1)

\* The value static f holds immediately after its class is initialised.
Observed(d, f) ==
  InitClass(d, FieldClass(f),
            [vals |-> [g \in Fields |-> DefaultValue32(d, g)], started |-> {}]).vals[f]

Surviving(d) ==
  UNION {SeqToSet(d.sfields[c]) : c \in Classes}

(* ------------------------------------------------------------------ *)
(* C1: the whole pass preserves static state: every static field that  *)
(* survives the pass holds, right after class initialisation, the      *)
(* value it held there before the pass.                                *)
(* ------------------------------------------------------------------ *)
C1_StaticStatePreserved ==
  (pc = "done" /\ run = 1) =>
     \A f \in Surviving(dex) : Observed(dex, f) = Observed(input, f)

(* ------------------------------------------------------------------ *)
(* C2: once the pass has completed, no method holds a static field     *)
(* instruction whose reference resolves to a field that was removed    *)
(* from its class's static-field list.                                 *)
(* ------------------------------------------------------------------ *)
StaticRefs(d) ==
  {f \in Fields :
     \E key \in MethodIds :
        /\ d.code[key].has
        /\ \E k \in 1..Len(d.code[key].code) :
              /\ is_sfield_op(d.code[key].code[k].op)
              /\ resolve_field(d.code[key].code[k].fld) = f}

C2_NoUseOfRemovedField ==
  pc = "done" => StaticRefs(dex) \subseteq Surviving(dex)

\* The pass has completed, it removed a field, and a removal candidate that
\* a remaining instruction refers to is still in its class.
C2_Witness ==
  /\ pc = "done"
  /\ Surviving(dex) # Fields
  /\ \E f \in MoveableFields(dex, scope, attrs) : f \in StaticRefs(dex)

(* ------------------------------------------------------------------ *)
(* C3: the pass is idempotent: a second run on the output of the first *)
(* changes no class, initialiser, field default, field list or method. *)
(* ------------------------------------------------------------------ *)
C3_Idempotent ==
  (pc = "done" /\ run = 2) => dex = snap

(* ------------------------------------------------------------------ *)
(* C4: try_replace_clinit removes an initialiser and lifts its          *)
(* constants exactly when the body is zero or more (load-constant,      *)
(* static-write) pairs followed by a return-void; every other body      *)
(* keeps its initialiser and the field defaults of its class.           *)
(* ------------------------------------------------------------------ *)
EncodableShape(c, code) ==
  /\ Len(code) % 2 = 1
  /\ code[Len(code)].op = "return_void"
  /\ \A j \in 1..(Len(code) \div 2) :
        /\ code[2 * j - 1].op \in {"const4", "const16", "const"}
        /\ code[2 * j].op = "sput"
        /\ resolve_field(code[2 * j].fld) # NoField
        /\ FieldClass(resolve_field(code[2 * j].fld)) = c
        /\ code[2 * j - 1].dest = code[2 * j].src

C4_ReplacedExactlyOnShape ==
  (pc = "pbuild" /\ run = 1) =>
     \A c \in Classes :
        input.code[<<c, "clinit">>].has =>
           IF EncodableShape(c, input.code[<<c, "clinit">>].code)
             THEN ~dex.code[<<c, "clinit">>].has
             ELSE /\ dex.code[<<c, "clinit">>] = input.code[<<c, "clinit">>]
                  /\ \A f \in Fields :
                        FieldClass(f) = c => dex.flds[f] = input.flds[f]

(* ------------------------------------------------------------------ *)
(* C5: every rewritten static read becomes the narrowest load of the   *)
(* 32-bit value v of the field's default: narrow-16 if (v & 0xFFFF) = v,*)
(* else high-16 if (v & 0xFFFF0000) = v, else wide-32; it keeps the    *)
(* destination register and carries v; nothing else changes.           *)
(* ------------------------------------------------------------------ *)
NarrowestOpcode(v) ==
  IF Fits16_32(v) THEN "const16"
  ELSE IF FitsHigh16_32(v) THEN "const_high16"
  ELSE "const"

Rewritten(key, id) ==
  \E n \in 1..Len(rewriteLog) : rewriteLog[n].key = key /\ rewriteLog[n].id = id

C5_NarrowestEncoding ==
  (pc = "remove") =>
     \A key \in MethodIds :
        \A k \in 1..Len(preInline.code[key].code) :
           LET old == preInline.code[key].code[k]
               new == dex.code[key].code[k]
               v == DefaultValue32(preInline, resolve_field(old.fld))
           IN  IF Rewritten(key, old.id)
                 THEN /\ new.op = NarrowestOpcode(v)
                      /\ new.dest = old.dest
                      /\ new.lit = ZeroExtend64(v)
                 ELSE new = old

(* ------------------------------------------------------------------ *)
(* C6: a static read is rewritten only if its target is static final   *)
(* and no static write in the initialiser its class has when inlining  *)
(* runs targets it; a read of a blank static is left as it is.         *)
(* ------------------------------------------------------------------ *)
WrittenByOwnClinit(d, f) ==
  LET m == d.code[<<FieldClass(f), "clinit">>]
  IN  /\ m.has
      /\ \E k \in 1..Len(m.code) :
            m.code[k].op = "sput" /\ resolve_field(m.code[k].fld) = f

C6_BlankStaticsNotInlined ==
  /\ \A n \in 1..Len(rewriteLog) :
        /\ is_static_final(preInline, rewriteLog[n].field)
        /\ ~WrittenByOwnClinit(preInline, rewriteLog[n].field)
  /\ (pc = "remove") =>
        \A key \in MethodIds :
           \A k \in 1..Len(preInline.code[key].code) :
              LET old == preInline.code[key].code[k]
              IN  (/\ old.op \in {"sget", "sget_wide", "sget_object"}
                   /\ resolve_field(old.fld) # NoField
                   /\ WrittenByOwnClinit(preInline, resolve_field(old.fld)))
                  => dex.code[key].code[k] = old

\* Inlining rewrote a read while a read of a blank static final stayed.
C6_Witness ==
  /\ pc = "remove"
  /\ Len(rewriteLog) > 0
  /\ \E key \in MethodIds :
        \E k \in 1..Len(dex.code[key].code) :
           /\ dex.code[key].code[k].op = "sget"
           /\ resolve_field(dex.code[key].code[k].fld) # NoField
           /\ is_static_final(dex, resolve_field(dex.code[key].code[k].fld))
           /\ WrittenByOwnClinit(preInline, resolve_field(dex.code[key].code[k].fld))

(* ------------------------------------------------------------------ *)
(* C7: a field that is not deletable, in a class that is not deletable *)
(* and is eligible only by a name prefix, is never removed.            *)
(* ------------------------------------------------------------------ *)
C7_PrefixClassKeepsUndeletable ==
  \A c \in Classes :
     \A f \in SeqToSet(input.sfields[c]) :
        (~attrs[c].can_delete /\ attrs[c].prefixed /\ ~input.flds[f].can_delete)
           => f \in Surviving(dex)

(* ------------------------------------------------------------------ *)
(* C8: the worklist loop makes each dependent field concrete at most   *)
(* once and removes each (sget, sput) pair at most once.               *)
(* ------------------------------------------------------------------ *)
C8_WrittenOnce ==
  /\ \A f \in Fields : nwrites[f] <= 1
  /\ ~missing

(* ------------------------------------------------------------------ *)
(* C9: a recorded (sget, sput) pair is never followed by an instruction*)
(* that reads the loaded register before the register is overwritten,  *)
(* an instruction that both reads and writes it included.              *)
(* ------------------------------------------------------------------ *)
RECURSIVE ReadBeforeOverwrite(_, _, _)
ReadBeforeOverwrite(code, j, reg) ==
  IF j > Len(code) THEN FALSE
  ELSE IF srcs_size(code[j]) > 0 /\ code[j].src = reg THEN TRUE
  ELSE IF dests_size(code[j]) > 0 /\ code[j].dest = reg THEN FALSE
  ELSE ReadBeforeOverwrite(code, j + 1, reg)

C9_NoRecordedPairWithLaterRead ==
  (pc = "ploop" /\ \A f \in Fields : nwrites[f] = 0) =>
     \A f \in Fields :
        \A n \in 1..Len(deps[f]) :
           LET code == dex.code[<<deps[f][n].clinit, "clinit">>].code
               at == IndexOf(code, deps[f][n].sget)
           IN  ~ReadBeforeOverwrite(code, at + 2, code[at].dest)

(* ------------------------------------------------------------------ *)
(* C10: fields whose initialisers copy from each other in a cycle are  *)
(* never resolved and never enqueued by the worklist loop.             *)
(* ------------------------------------------------------------------ *)
DepEdge(f, g) ==
  \E n \in 1..Len(deps[f]) : deps[f][n].field = g

RECURSIVE Reach(_, _)
Reach(S, n) ==
  IF n = 0 THEN S
  ELSE Reach(S \cup {g \in Fields : \E f \in S : DepEdge(f, g)}, n - 1)

CyclicFields ==
  {f \in Fields :
     f \in Reach({g \in Fields : DepEdge(f, g)}, Cardinality(Fields))}

C10_CyclesNeverResolved ==
  \A f \in CyclicFields : f \notin enqueued /\ nwrites[f] = 0

(* ------------------------------------------------------------------ *)
(* C11: within a single method the rewrites are applied in source-     *)
(* instruction order: of two rewritten static reads of one method, the *)
(* earlier one in the stream is replaced first, whatever mix of cheap  *)
(* and simple rewrites the method has.                                 *)
(* ------------------------------------------------------------------ *)
\* The position in its method, as inlining found it, of the n-th rewrite.
SourcePos(n) ==
  IndexOf(preInline.code[rewriteLog[n].key].code, rewriteLog[n].id)

C11_SourceOrder ==
  \A n \in 1..Len(rewriteLog) :
     \A m \in 1..Len(rewriteLog) :
        (n < m /\ rewriteLog[n].key = rewriteLog[m].key)
           => SourcePos(n) < SourcePos(m)

(* C11 as amended: every cheap rewrite is applied before every simple  *)
(* rewrite, and within a single method the rewrites of one kind are    *)
(* applied in source-instruction order.                                *)
C11_SourceOrderPerKind ==
  \A n \in 1..Len(rewriteLog) :
     \A m \in 1..Len(rewriteLog) :
        n < m =>
           /\ ~(~rewriteLog[n].cheap /\ rewriteLog[m].cheap)
           /\ (/\ rewriteLog[n].key = rewriteLog[m].key
               /\ rewriteLog[n].cheap = rewriteLog[m].cheap)
                 => SourcePos(n) < SourcePos(m)

\* Inlining has finished on a method in which a simple read comes before a
\* cheap read: the cheap one was replaced first.
C11_Witness ==
  /\ pc = "remove"
  /\ \E n \in 1..Len(rewriteLog) :
        \E m \in 1..Len(rewriteLog) :
           /\ n < m
           /\ rewriteLog[n].key = rewriteLog[m].key
           /\ rewriteLog[n].cheap /\ ~rewriteLog[m].cheap
           /\ SourcePos(m) < SourcePos(n)

(* ------------------------------------------------------------------ *)
(* C12: in a scope whose static field instructions all resolve to      *)
(* concrete fields, inline_field_values never ends in the fatal        *)
(* assertion of validate_sget, and a static op on an inlinable field   *)
(* that is not a narrow sget (a wide sget, an object sget, a static    *)
(* write) is left as it is.                                            *)
(* ------------------------------------------------------------------ *)
AllResolve(d) ==
  \A key \in MethodIds :
     \A k \in 1..Len(d.code[key].code) :
        has_fields(d.code[key].code[k]) =>
           /\ resolve_field(d.code[key].code[k].fld) # NoField
           /\ is_concrete(resolve_field(d.code[key].code[k].fld))

\* The positions of a method that hold a static op on an inlinable field
\* other than a narrow sget.
UnhandledSites(d, key) ==
  {k \in 1..Len(d.code[key].code) :
     /\ is_sfield_op(d.code[key].code[k].op)
     /\ d.code[key].code[k].op # "sget"
     /\ resolve_field(d.code[key].code[k].fld) \in InlineField(d, scope)}

C12_UnhandledOpcodeIgnored ==
  (preInline # NotYet /\ AllResolve(preInline)) =>
     /\ fatal # "validate_sget"
     /\ (pc = "remove") =>
           \A key \in MethodIds :
              \A k \in UnhandledSites(preInline, key) :
                 dex.code[key].code[k] = preInline.code[key].code[k]

(* ------------------------------------------------------------------ *)
(* C13: the fatal assertion of inline_cheap_sget is never reached:     *)
(* every rewrite queued as cheap, and every cheap rewrite applied,     *)
(* targets a field whose value truncated to 32 bits fits a narrow-16   *)
(* or a high-16 load.                                                  *)
(* ------------------------------------------------------------------ *)
\* The fields the rewrites queued as cheap target.
CheapQueued(d) ==
  LET sites == InlineSites(d, InlineField(d, scope), scope)
  IN  {resolve_field(d.code[sites[n].key].code[IndexOf(d.code[sites[n].key].code,
                                                       sites[n].id)].fld) :
         n \in {j \in 1..Len(sites) : sites[j].cheap}}

FitsCheap32(v) ==
  Fits16_32(v) \/ FitsHigh16_32(v)

C13_CheapAssertUnreachable ==
  /\ fatal # "inline_cheap_sget"
  /\ (preInline # NotYet) =>
        \A f \in CheapQueued(preInline) : FitsCheap32(DefaultValue32(preInline, f))
  /\ \A n \in 1..Len(rewriteLog) :
        rewriteLog[n].cheap =>
           FitsCheap32(DefaultValue32(preInline, rewriteLog[n].field))

\* A cheap rewrite of a value that needs the high-16 load was applied after
\* another rewrite.
C13_Witness ==
  /\ pc = "remove"
  /\ \E n \in 2..Len(rewriteLog) :
        /\ rewriteLog[n].cheap
        /\ FitsHigh16_32(DefaultValue32(preInline, rewriteLog[n].field))
        /\ ~Fits16_32(DefaultValue32(preInline, rewriteLog[n].field))

====
